---- MODULE Spec2Model ----
(***************************************************************************)
(* Model of main() of lightweight-human-pose-estimation-3d.py: the         *)
(* per-frame pipeline (fetch, preprocess, inference, decode, coordinate    *)
(* transform, render) and the playback controller driven by cv2.waitKey.   *)
(*                                                                         *)
(* The loop body is cut into steps at the program points named by pc; the  *)
(* steps of one iteration follow each other deterministically except for   *)
(* the inputs drawn from the frame source, the decoder, the clock and the  *)
(* keyboard.                                                               *)
(***************************************************************************)
EXTENDS Integers, Sequences, FiniteSets

\* ---------------------------------------------------------------- bounds
\* Most items one run draws from the frame source.
MaxFrames == 3
\* Most people the decoder reports for one frame.
MaxPeople == 2

\* ------------------------------------------------------------- constants
IMAGE_HEIGHT == 256
STRIDE == 8
esc_code == 27
p_code == 112
space_code == 32
\* Number of keypoints of one pose (the literal 19 of the reshape and of the
\* edge offset).
NumKeypoints == 19
\* Inference runs per frame in single-image mode (range(5)).
ImageRuns == 5

\* cv2.waitKey returns -1 when the delay elapses without a keypress.
NoKey == 0 - 1
\* A key that is none of escape, 'p' and space ('a').
OtherKeys == {97}
Keys == {esc_code, p_code, space_code} \cup OtherKeys

\* ------------------------------------------------------------- frames
\* A frame is its shape (frame.shape[0], frame.shape[1]); the source's None
\* is the shapeless item.
None == [h |-> 0, w |-> 0]
IsNone(f) == f.h = 0
\* Frame shapes the source may deliver: one aligned to the stride, one
\* narrower, one whose scaled width (447.5) is not an integer.
FrameShapes == {[h |-> 256, w |-> 448], [h |-> 256, w |-> 300], [h |-> 512, w |-> 895]}
\* Frame-time samples, in clock ticks, (getTickCount difference) per frame.
Samples == {1, 2}

VARIABLES
    is_video,       \* args.video is not None
    rotate3d,       \* args.rotate3d
    pc,             \* position of main() in the loop
    frame_id,       \* enumerate index of the last item fetched (-1: none yet)
    frame,          \* the item last fetched
    first_frame,    \* history: the first frame that was preprocessed
    base_width_calculated,
    IMAGE_WIDTH,    \* main()'s local IMAGE_WIDTH (0: not yet assigned)
    net_shape,      \* input shape held by the engine (<<>>: as loaded)
    n_set_shape,    \* number of net.set_input_shape calls
    fx,             \* focal length in tenths of a pixel (-10: unknown)
    normalized_img, \* shape of the tensor produced for the current frame
    n_preprocessed, \* number of frames preprocessed
    i,              \* inference runs done for the current frame
    results,        \* what net.get_results() last returned: <<frame_id, run>>
    net_runs,       \* number of net.update() calls
    inference_result, \* the result handed to parse_poses
    n_decoded,      \* number of parse_poses calls
    poses_3d,
    poses_2d,
    edges,
    canvas_3d,      \* scene last plotted onto the 3D canvas
    overlay,        \* what was last drawn onto a frame
    shown,          \* windows that received an imshow
    written,        \* files written by imwrite
    mean_time,      \* <<numerator, denominator>> of the smoothed frame time
    current_time,   \* frame time of the last frame, in ticks (line 206)
    delay,
    key,
    n_polls         \* history: number of main polls that have returned

vars == <<is_video, rotate3d, pc, frame_id, frame, first_frame,
          base_width_calculated, IMAGE_WIDTH, net_shape, n_set_shape, fx,
          normalized_img, n_preprocessed, i, results, net_runs,
          inference_result, n_decoded, poses_3d, poses_2d, edges, canvas_3d,
          overlay, shown, written, mean_time, current_time, delay, key,
          n_polls>>

argVars == <<is_video, rotate3d>>
fetchVars == <<frame_id, frame>>
prepVars == <<first_frame, base_width_calculated, IMAGE_WIDTH, net_shape,
              n_set_shape, fx, normalized_img, n_preprocessed>>
inferVars == <<i, results, net_runs>>
decodeVars == <<inference_result, n_decoded, poses_3d, poses_2d, edges>>
renderVars == <<canvas_3d, overlay, shown, written, mean_time, current_time>>
keyVars == <<delay, key>>

Init ==
    /\ is_video \in BOOLEAN
    /\ rotate3d \in BOOLEAN
    /\ pc = "fetch"
    /\ frame_id = 0 - 1
    /\ frame = None
    /\ first_frame = None
    /\ base_width_calculated = FALSE
    /\ IMAGE_WIDTH = 0
    /\ net_shape = <<>>
    /\ n_set_shape = 0
    /\ fx = 0 - 10
    /\ normalized_img = <<>>
    /\ n_preprocessed = 0
    /\ i = 0
    /\ results = <<>>
    /\ net_runs = 0
    /\ inference_result = <<>>
    /\ n_decoded = 0
    /\ poses_3d = <<>>
    /\ poses_2d = <<>>
    /\ edges = <<>>
    /\ canvas_3d = <<>>
    /\ overlay = <<>>
    /\ shown = {}
    /\ written = {}
    /\ mean_time = <<0, 1>>
    /\ current_time = 0
    /\ delay = 1
    /\ key = 0
    /\ n_polls = 0


\* ------------------------------------------------------------ frame source
\* ImageReader([args.input]) delivers the one image; VideoReader delivers
\* frames, or None, until the stream ends.
SourceItems == IF is_video THEN FrameShapes \cup {None} ELSE FrameShapes
SourceLength == IF is_video THEN MaxFrames ELSE 1

\* Mutant of Fetch: a None item is skipped (continue) instead of ending the
\* loop.
Fetch_SkipNone ==
    /\ pc = "fetch"
    /\ \/ /\ is_video \/ frame_id + 1 >= SourceLength
          /\ pc' = "done"
          /\ UNCHANGED fetchVars
       \/ /\ frame_id + 1 < SourceLength
          /\ \E f \in SourceItems :
                /\ frame' = f
                /\ frame_id' = frame_id + 1
                /\ pc' = IF IsNone(f) THEN "fetch" ELSE "preprocess"
    /\ UNCHANGED <<argVars, n_polls, prepVars, inferVars, decodeVars, renderVars, keyVars>>

\* for frame_id, frame in enumerate(frame_provider): ... if frame is None: break
Fetch ==
    /\ pc = "fetch"
    /\ \/ \* the provider raises StopIteration: the for loop ends
          /\ is_video \/ frame_id + 1 >= SourceLength
          /\ pc' = "done"
          /\ UNCHANGED fetchVars
       \/ \* the provider yields its next item
          /\ frame_id + 1 < SourceLength
          /\ \E f \in SourceItems :
                /\ frame' = f
                /\ frame_id' = frame_id + 1
                /\ pc' = IF IsNone(f) THEN "done" ELSE "preprocess"
    /\ UNCHANGED <<argVars, n_polls, prepVars, inferVars, decodeVars, renderVars, keyVars>>

\* ------------------------------------------------------------ preprocessor
\* int(frame.shape[1] * (IMAGE_HEIGHT / frame.shape[0]) / STRIDE) * STRIDE
BaseWidth(f) == ((f.w * IMAGE_HEIGHT) \div (f.h * STRIDE)) * STRIDE

\* cv2.resize with dsize=None sizes the output with cvRound(fx * cols):
\* n / d rounded to the nearest integer, a tie going to the even one.
cvRound(n, d) ==
    LET q == n \div d
        r == n % d
    IN  IF 2 * r < d THEN q
        ELSE IF 2 * r > d THEN q + 1
        ELSE IF q % 2 = 0 THEN q ELSE q + 1

ResizedWidth(f) == cvRound(f.w * IMAGE_HEIGHT, f.h)
ResizedHeight(f) == cvRound(f.h * IMAGE_HEIGHT, f.h)

\* Mutant of CropWidth: the width is padded up to the next multiple of the
\* stride instead of cut down.
CropWidth_Pad(w) == w + ((STRIDE - (w % STRIDE)) % STRIDE)

\* scaled_img[:, 0:scaled_img.shape[1] - (scaled_img.shape[1] % STRIDE)]
CropWidth(w) == w - (w % STRIDE)

\* (1, 3, H, W) after transpose(2, 0, 1) and expand_dims
TensorShape(f) == <<1, 3, ResizedHeight(f), CropWidth(ResizedWidth(f))>>

\* Mutant of Preprocess: base_width_calculated is never set, so every frame
\* configures the engine again.
Preprocess_Reconfigure ==
    /\ pc = "preprocess"
    /\ IMAGE_WIDTH' = BaseWidth(frame)
    /\ net_shape' = <<1, 3, IMAGE_HEIGHT, BaseWidth(frame)>>
    /\ n_set_shape' = n_set_shape + 1
    /\ UNCHANGED base_width_calculated
    /\ first_frame' = IF n_preprocessed = 0 THEN frame ELSE first_frame
    /\ normalized_img' = TensorShape(frame)
    /\ fx' = IF fx < 0 THEN 8 * frame.w ELSE fx
    /\ n_preprocessed' = n_preprocessed + 1
    /\ i' = 0
    /\ pc' = "infer"
    /\ UNCHANGED <<argVars, n_polls, fetchVars, results, net_runs, decodeVars,
                   renderVars, keyVars>>

Preprocess ==
    /\ pc = "preprocess"
    /\ IF ~base_width_calculated
         THEN /\ IMAGE_WIDTH' = BaseWidth(frame)
              /\ net_shape' = <<1, 3, IMAGE_HEIGHT, BaseWidth(frame)>>
              /\ n_set_shape' = n_set_shape + 1
              /\ base_width_calculated' = TRUE
         ELSE UNCHANGED <<IMAGE_WIDTH, net_shape, n_set_shape,
                          base_width_calculated>>
    /\ first_frame' = IF n_preprocessed = 0 THEN frame ELSE first_frame
    /\ normalized_img' = TensorShape(frame)
    /\ fx' = IF fx < 0 THEN 8 * frame.w ELSE fx
    /\ n_preprocessed' = n_preprocessed + 1
    /\ i' = 0
    /\ pc' = "infer"
    /\ UNCHANGED <<argVars, n_polls, fetchVars, results, net_runs, decodeVars,
                   renderVars, keyVars>>

\* --------------------------------------------------------------- inference
\* Engine runs the loop makes for one frame.
\* Mutant of RunsPerFrame: the timing loop is run for a video too.
RunsPerFrame_AlwaysLoop == ImageRuns

RunsPerFrame == IF is_video THEN 1 ELSE ImageRuns

\* One net.set_input_blob_data / net.update() / net.get_results().
Infer ==
    /\ pc = "infer"
    /\ i < RunsPerFrame
    /\ results' = <<frame_id, i>>
    /\ net_runs' = net_runs + 1
    /\ i' = i + 1
    /\ pc' = IF i + 1 = RunsPerFrame THEN "decode" ELSE "infer"
    /\ UNCHANGED <<argVars, n_polls, fetchVars, prepVars, decodeVars, renderVars, keyVars>>


\* ------------------------------------------------- coordinate transformer
\* Extrinsics loaded from extrinsics.json: a rotation about the z axis by a
\* quarter turn and a translation.
R == <<<<0, 0 - 1, 0>>, <<1, 0, 0>>, <<0, 0, 1>>>>
t == <<1, 2, 3>>

\* np.linalg.inv(R); R is orthonormal, so its inverse is its transpose.
R_inv == [a \in 1..3 |-> [b \in 1..3 |-> R[b][a]]]

\* np.dot(M, v) for one column v
Dot(M, v) == [a \in 1..3 |-> M[a][1] * v[1] + M[a][2] * v[2] + M[a][3] * v[3]]

PoseLen == 4 * NumKeypoints

\* One pose as parse_poses returns it: 19 keypoints of (x, y, z, confidence),
\* flattened; the values tell frames, people and components apart.
RawPose(fid, p) == [k \in 1..PoseLen |-> 1000 * fid + 100 * p + k]

\* def rotate_poses(poses_3d, R, t), for one pose
RotatePose(v) ==
    [k \in 1..PoseLen |->
        LET b == 4 * ((k - 1) \div 4)
            c == (k - 1) % 4
        IN  IF c = 3 THEN v[k]
            ELSE Dot(R_inv, <<v[b + 1] - t[1], v[b + 2] - t[2], v[b + 3] - t[3]>>)[c + 1]]

\* Mutant of AxisRemap: the three assignments are made one after the other
\* on the array itself, so y reads the new x and z the new y.
AxisRemap_InPlace(v) ==
    [k \in 1..PoseLen |->
        LET b == 4 * ((k - 1) \div 4)
            c == (k - 1) % 4
        IN  CASE c = 0 -> 0 - v[b + 3]
              [] c = 1 -> 0 - v[b + 3]
              [] c = 2 -> v[b + 3]
              [] OTHER -> v[k]]

\* poses_3d[:, 0::4], poses_3d[:, 1::4], poses_3d[:, 2::4] = -z, x, -y
\* with x, y, z taken from the copy
AxisRemap(v) ==
    [k \in 1..PoseLen |->
        LET b == 4 * ((k - 1) \div 4)
            c == (k - 1) % 4
        IN  CASE c = 0 -> 0 - v[b + 3]
              [] c = 1 -> v[b + 1]
              [] c = 2 -> 0 - v[b + 2]
              [] OTHER -> v[k]]

\* poses_3d.reshape(n, 19, -1)[:, :, 0:3], for one pose
DropConfidence(v) ==
    [j \in 1..NumKeypoints |-> <<v[4 * (j - 1) + 1], v[4 * (j - 1) + 2], v[4 * (j - 1) + 3]>>]

\* Plotter3d.SKELETON_EDGES
SKELETON_EDGES ==
    << <<11, 10>>, <<10, 9>>, <<9, 0>>, <<0, 3>>, <<3, 4>>, <<4, 5>>,
       <<0, 6>>, <<6, 7>>, <<7, 8>>, <<0, 12>>, <<12, 13>>, <<13, 14>>,
       <<0, 1>>, <<1, 15>>, <<15, 16>>, <<1, 17>>, <<17, 18>> >>

\* Mutant of SkeletonEdges: the template is repeated without the offset.
SkeletonEdges_NoOffset(n) ==
    LET K == Len(SKELETON_EDGES)
    IN  [e \in 1..(n * K) |-> SKELETON_EDGES[((e - 1) % K) + 1]]

\* (SKELETON_EDGES + 19 * np.arange(n).reshape((-1, 1, 1))).reshape((-1, 2))
SkeletonEdges(n) ==
    LET K == Len(SKELETON_EDGES)
    IN  [e \in 1..(n * K) |->
            LET p == (e - 1) \div K
                m == ((e - 1) % K) + 1
            IN  <<SKELETON_EDGES[m][1] + NumKeypoints * p,
                  SKELETON_EDGES[m][2] + NumKeypoints * p>>]

\* The 3D poses after rotation, axis remap and reshape (an empty decoder
\* result is left as it is).
TransformPoses(raw) ==
    [p \in 1..Len(raw) |-> DropConfidence(AxisRemap(RotatePose(raw[p])))]

\* Mutant of Decode: a frame without poses is skipped (continue) before it
\* is rendered.
Decode_SkipsEmpty ==
    /\ pc = "decode"
    /\ inference_result' = results
    /\ n_decoded' = n_decoded + 1
    /\ \E n \in 0..MaxPeople :
          LET raw == [p \in 1..n |-> RawPose(frame_id, p - 1)]
          IN  /\ poses_2d' = [p \in 1..n |-> <<frame_id, p - 1>>]
              /\ IF n > 0
                   THEN /\ poses_3d' = TransformPoses(raw)
                        /\ edges' = SkeletonEdges(n)
                        /\ pc' = "render"
                   ELSE /\ poses_3d' = raw
                        /\ edges' = <<>>
                        /\ pc' = "fetch"
    /\ UNCHANGED <<argVars, n_polls, fetchVars, prepVars, inferVars, renderVars, keyVars>>

\* inference_result = (...); parse_poses(...); the transform; the edge list
Decode ==
    /\ pc = "decode"
    /\ inference_result' = results
    /\ n_decoded' = n_decoded + 1
    /\ \E n \in 0..MaxPeople :
          LET raw == [p \in 1..n |-> RawPose(frame_id, p - 1)]
          IN  /\ poses_2d' = [p \in 1..n |-> <<frame_id, p - 1>>]
              /\ IF n > 0
                   THEN /\ poses_3d' = TransformPoses(raw)
                        /\ edges' = SkeletonEdges(n)
                   ELSE /\ poses_3d' = raw
                        /\ edges' = <<>>
    /\ pc' = "render"
    /\ UNCHANGED <<argVars, n_polls, fetchVars, prepVars, inferVars, renderVars, keyVars>>

\* --------------------------------------------------------- scene renderer
\* plotter.plot(canvas_3d, poses_3d, edges): the canvas is redrawn whole
Plot(poses, edgs) == <<poses, edgs>>

\* Mutant of MeanTime: the two weights are swapped.
MeanTime_Swapped(m, s) ==
    IF m[1] = 0 THEN <<s, 1>> ELSE <<m[1] + 19 * s * m[2], 20 * m[2]>>

\* mean_time = current_time if mean_time == 0
\*             else mean_time * 0.95 + current_time * 0.05
MeanTime(m, s) ==
    IF m[1] = 0 THEN <<s, 1>> ELSE <<19 * m[1] + s * m[2], 20 * m[2]>>

CanvasFile(fid) == [name |-> "Canvas3D_.png", id |-> fid]
SaveFile == [name |-> "savepath", id |-> 0]

\* Lines 198-217 with the frame time drawn from S. When the estimate is 0,
\* 1 / mean_time of the FPS text raises ZeroDivisionError: the run ends there,
\* after the canvas was shown or written and before the frame is.
RenderWith(S) ==
    /\ pc = "render"
    /\ canvas_3d' = Plot(poses_3d, edges)
    /\ \E s \in S :
          /\ current_time' = s
          /\ mean_time' = MeanTime(mean_time, s)
          /\ IF MeanTime(mean_time, s)[1] = 0
               THEN /\ pc' = "raised"
                    /\ UNCHANGED overlay
                    /\ IF is_video
                         THEN /\ shown' = shown \cup {"Canvas3D"}
                              /\ UNCHANGED written
                         ELSE /\ written' = written \cup {CanvasFile(frame_id)}
                              /\ UNCHANGED shown
               ELSE /\ pc' = "poll"
                    /\ overlay' = [frame |-> frame_id, poses |-> poses_2d,
                                   mean |-> MeanTime(mean_time, s)]
                    /\ IF is_video
                         THEN /\ shown' = shown \cup {"Canvas3D", "ICV 3D Human Pose Estimation"}
                              /\ UNCHANGED written
                         ELSE /\ written' = written \cup {CanvasFile(frame_id), SaveFile}
                              /\ UNCHANGED shown
    /\ UNCHANGED <<argVars, n_polls, fetchVars, prepVars, inferVars, decodeVars, keyVars>>

\* The render step of a run: a frame takes at least one tick.
Render == RenderWith(Samples)

\* The render step when the clock may also report a frame time of 0.
RenderTicks == RenderWith(Samples \cup {0})

\* ----------------------------------------------------- playback controller
\* What cv2.waitKey(d) can return: a key, or -1 once a positive delay has
\* elapsed; with d = 0 it waits for a key without limit.
WaitKey(d) == IF d > 0 THEN Keys \cup {NoKey} ELSE Keys

\* Mutant of ToggleDelay: the else branch is lost, a paused loop stays paused.
ToggleDelay_Stuck(d) == 0

\* if delay == 1: delay = 0 else: delay = 1
ToggleDelay(d) == IF d = 1 THEN 0 ELSE 1

\* Mutant of MainPollEffect: the exit test is lost, escape is handled like
\* any other key.
MainPollEffect_NoExit(k) ==
    /\ delay' = IF k = p_code THEN ToggleDelay(delay) ELSE delay
    /\ pc' = "check"
    /\ UNCHANGED <<argVars, fetchVars, prepVars, inferVars, decodeVars, renderVars>>

\* Mutant of MainPollEffect: every key that is not escape toggles the pause.
MainPollEffect_AnyKeyPauses(k) ==
    /\ IF k = esc_code
         THEN /\ pc' = "done"
              /\ UNCHANGED delay
         ELSE /\ delay' = IF k # NoKey THEN ToggleDelay(delay) ELSE delay
              /\ pc' = "check"
    /\ UNCHANGED <<argVars, fetchVars, prepVars, inferVars, decodeVars, renderVars>>

\* if key == esc_code: break; if key == p_code: toggle delay -- what the
\* loop does with the value k returned by the main poll
MainPollEffect(k) ==
    /\ IF k = esc_code
         THEN /\ pc' = "done"
              /\ UNCHANGED delay
         ELSE /\ delay' = IF k = p_code THEN ToggleDelay(delay) ELSE delay
              /\ pc' = "check"
    /\ UNCHANGED <<argVars, fetchVars, prepVars, inferVars, decodeVars, renderVars>>

\* key = cv2.waitKey(delay) and the two ifs that follow it
MainPoll(k) ==
    /\ pc = "poll"
    /\ k \in WaitKey(delay)
    /\ key' = k
    /\ n_polls' = n_polls + 1
    /\ MainPollEffect(k)

\* Mutant of CheckRotate: the while loop is never entered.
CheckRotate_Never ==
    /\ pc = "check"
    /\ pc' = "fetch"
    /\ UNCHANGED <<argVars, n_polls, fetchVars, prepVars, inferVars, decodeVars,
                   renderVars, keyVars>>

\* Mutant of CheckRotate: the loop is entered on pause whatever the option.
CheckRotate_IgnoreOption ==
    /\ pc = "check"
    /\ IF delay = 0
         THEN /\ key' = 0
              /\ pc' = "rotate"
         ELSE /\ pc' = "fetch"
              /\ UNCHANGED key
    /\ UNCHANGED <<argVars, n_polls, fetchVars, prepVars, inferVars, decodeVars,
                   renderVars, delay>>

\* if delay == 0 and args.rotate3d: key = 0; while ...
CheckRotate ==
    /\ pc = "check"
    /\ IF delay = 0 /\ rotate3d
         THEN /\ key' = 0
              /\ pc' = "rotate"
         ELSE /\ pc' = "fetch"
              /\ UNCHANGED key
    /\ UNCHANGED <<argVars, n_polls, fetchVars, prepVars, inferVars, decodeVars,
                   renderVars, delay>>

\* the keys that end the while loop
RotateExitKeys == {p_code, esc_code, space_code}

\* Mutant of RotatePollEffect: leaving the loop does not set delay back to 1.
RotatePollEffect_NoReset(k) ==
    /\ canvas_3d' = Plot(poses_3d, edges)
    /\ shown' = shown \cup {"Canvas3D"}
    /\ IF k \in RotateExitKeys
         THEN /\ pc' = IF k = esc_code THEN "done" ELSE "fetch"
              /\ UNCHANGED delay
         ELSE UNCHANGED <<pc, delay>>
    /\ UNCHANGED <<argVars, n_polls, fetchVars, prepVars, inferVars, decodeVars,
                   overlay, written, mean_time,
                   current_time>>

\* Mutant of RotatePollEffect: each pass starts from an empty edge list.
RotatePollEffect_ClearsEdges(k) ==
    /\ edges' = <<>>
    /\ canvas_3d' = Plot(poses_3d, <<>>)
    /\ shown' = shown \cup {"Canvas3D"}
    /\ IF k \in RotateExitKeys
         THEN IF k = esc_code
                THEN /\ pc' = "done"
                     /\ UNCHANGED delay
                ELSE /\ delay' = 1
                     /\ pc' = "fetch"
         ELSE UNCHANGED <<pc, delay>>
    /\ UNCHANGED <<argVars, n_polls, fetchVars, prepVars, inferVars, inference_result,
                   n_decoded, poses_3d, poses_2d, overlay, written, mean_time,
                   current_time>>

\* plotter.plot(...); cv2.imshow(...) of one pass of the while loop, and
\* what the loop does with the value k its poll returned: go round again,
\* or leave with if key == esc_code: break else: delay = 1
RotatePollEffect(k) ==
    /\ canvas_3d' = Plot(poses_3d, edges)
    /\ shown' = shown \cup {"Canvas3D"}
    /\ IF k \in RotateExitKeys
         THEN IF k = esc_code
                THEN /\ pc' = "done"
                     /\ UNCHANGED delay
                ELSE /\ delay' = 1
                     /\ pc' = "fetch"
         ELSE UNCHANGED <<pc, delay>>
    /\ UNCHANGED <<argVars, n_polls, fetchVars, prepVars, inferVars, decodeVars,
                   overlay, written, mean_time,
                   current_time>>

\* One pass of the while loop, with key = cv2.waitKey(33)
RotatePoll(k) ==
    /\ pc = "rotate"
    /\ k \in WaitKey(33)
    /\ key' = k
    /\ RotatePollEffect(k)

\* ------------------------------------------------------------ specification
Next ==
    \/ Fetch
    \/ Preprocess
    \/ Infer
    \/ Decode
    \/ Render
    \/ \E k \in Keys \cup {NoKey} : MainPoll(k)
    \/ CheckRotate
    \/ \E k \in Keys \cup {NoKey} : RotatePoll(k)

Spec == Init /\ [][Next]_vars

\* The same run of a video with a clock coarse enough to report a frame
\* time of 0.
InitTicks == Init /\ is_video /\ ~rotate3d

NextTicks ==
    \/ Fetch
    \/ Preprocess
    \/ Infer
    \/ Decode
    \/ RenderTicks
    \/ \E k \in Keys \cup {NoKey} : MainPoll(k)
    \/ CheckRotate

SpecTicks == InitTicks /\ [][NextTicks]_vars

\* The preprocessing of a first frame of any shape of a range: heights for
\* which IMAGE_HEIGHT / height is exact in binary floating point, widths
\* from 16 up.
MaxShapeWidth == 47
ShapeRange == [h : {128, 256, 512, 1024}, w : 16..MaxShapeWidth]

\* The state at line 132 of a video run whose source has just yielded its
\* first frame.
InitShapes ==
    /\ is_video = TRUE
    /\ rotate3d = FALSE
    /\ pc = "preprocess"
    /\ frame_id = 0
    /\ frame \in ShapeRange
    /\ first_frame = None
    /\ base_width_calculated = FALSE
    /\ IMAGE_WIDTH = 0
    /\ net_shape = <<>>
    /\ n_set_shape = 0
    /\ fx = 0 - 10
    /\ normalized_img = <<>>
    /\ n_preprocessed = 0
    /\ i = 0
    /\ results = <<>>
    /\ net_runs = 0
    /\ inference_result = <<>>
    /\ n_decoded = 0
    /\ poses_3d = <<>>
    /\ poses_2d = <<>>
    /\ edges = <<>>
    /\ canvas_3d = <<>>
    /\ overlay = <<>>
    /\ shown = {}
    /\ written = {}
    /\ mean_time = <<0, 1>>
    /\ current_time = 0
    /\ delay = 1
    /\ key = 0
    /\ n_polls = 0

NextShapes == Preprocess \/ Infer

SpecShapes == InitShapes /\ [][NextShapes]_vars


\* ---------------------------------------------------------- playback states
\* The controller's states, read off pc and delay: STOPPED once the loop has
\* ended, FREE_ROTATE inside the while loop, otherwise RUNNING with
\* delay = 1 and FROZEN with delay = 0.
PlaybackState ==
    IF pc = "done" THEN "STOPPED"
    ELSE IF pc = "rotate" THEN "FREE_ROTATE"
    ELSE IF delay = 1 THEN "RUNNING"
    ELSE "FROZEN"

\* C1: whenever the main poll or the FREE_ROTATE poll returns the exit key,
\* the loop is STOPPED after that step, and from STOPPED no step fetches a
\* frame, preprocesses one or runs the inference engine.
C1_ExitStops ==
    [][ /\ (MainPoll(esc_code) \/ RotatePoll(esc_code)) => PlaybackState' = "STOPPED"
        /\ PlaybackState = "STOPPED" =>
              /\ PlaybackState' = "STOPPED"
              /\ UNCHANGED <<frame_id, n_preprocessed, net_runs>> ]_vars

\* C1 witness: the exit key was pressed at the blocking poll of FROZEN, after
\* frames were processed, and the loop is stopped.
C1_Witness ==
    /\ pc = "done" /\ key = esc_code
    /\ delay = 0 /\ ~rotate3d /\ n_preprocessed >= 2

\* C2 as claimed: while delay = 0 no step fetches a frame, with the rotate
\* option enabled or not.
C2_FrozenNeverFetches ==
    [][ (delay = 0 /\ pc # "done") => frame_id' = frame_id ]_vars

\* C2 amended: while delay = 0 and the rotate option is enabled, no step
\* fetches a frame, whatever key a poll returns.
C2_FrozenRotateNeverFetches ==
    [][ (delay = 0 /\ rotate3d) => frame_id' = frame_id ]_vars

\* C2 witness: paused with the rotate option enabled, a key was pressed and
\* the loop still holds the frame it was paused on.
C2_Witness ==
    /\ rotate3d /\ delay = 0 /\ pc = "rotate"
    /\ key \in OtherKeys /\ frame_id >= 1

\* C3: with the rotate option enabled, the pause key at the main poll in
\* RUNNING sets delay to 0, the loop goes into FREE_ROTATE, the pause key or
\* the space key there sets delay back to 1 and returns to the head of the
\* frame loop in RUNNING, and none of these steps fetches a frame.
C3_PauseResume ==
    [][ rotate3d =>
          /\ (delay = 1 /\ MainPoll(p_code)) =>
                (delay' = 0 /\ pc' = "check" /\ frame_id' = frame_id)
          /\ (pc = "check" /\ delay = 0) =>
                (pc' = "rotate" /\ frame_id' = frame_id)
          /\ pc = "rotate" => frame_id' = frame_id
          /\ (RotatePoll(p_code) \/ RotatePoll(space_code)) =>
                (PlaybackState' = "RUNNING" /\ pc' = "fetch" /\ delay' = 1) ]_vars

\* C3 witness: the loop is back at the head of the frame loop in RUNNING
\* after the pause key ended FREE_ROTATE.
C3_Witness ==
    /\ rotate3d /\ pc = "fetch" /\ delay = 1
    /\ key = p_code /\ "Canvas3D" \in shown /\ frame_id >= 0

\* C4: the pause key at the main poll takes RUNNING to FROZEN and FROZEN to
\* RUNNING.
C4_PauseToggles ==
    [][ MainPoll(p_code) =>
          /\ PlaybackState = "RUNNING" => (PlaybackState' = "FROZEN" /\ delay' = 0)
          /\ PlaybackState = "FROZEN" => (PlaybackState' = "RUNNING" /\ delay' = 1) ]_vars

\* C4 witness: the pause key was pressed at the main poll and the loop is in
\* RUNNING, so it was FROZEN before (and RUNNING before that).
C4_Witness ==
    /\ pc = "check" /\ key = p_code /\ delay = 1

\* C5: FREE_ROTATE is entered only from FROZEN with the rotate option
\* enabled; it is left only on the pause or space key, to RUNNING, or on the
\* exit key, to STOPPED; a timeout or any other key stays in FREE_ROTATE.
C5_FreeRotate ==
    [][ /\ (PlaybackState # "FREE_ROTATE" /\ PlaybackState' = "FREE_ROTATE") =>
              (PlaybackState = "FROZEN" /\ rotate3d)
        /\ (PlaybackState = "FREE_ROTATE" /\ PlaybackState' # "FREE_ROTATE") =>
              \/ key' \in {p_code, space_code} /\ PlaybackState' = "RUNNING"
              \/ key' = esc_code /\ PlaybackState' = "STOPPED"
        /\ (RotatePoll(p_code) \/ RotatePoll(space_code)) => PlaybackState' = "RUNNING"
        /\ RotatePoll(esc_code) => PlaybackState' = "STOPPED"
        /\ \A k \in OtherKeys \cup {NoKey} :
              RotatePoll(k) => PlaybackState' = "FREE_ROTATE" ]_vars

\* C5 witness: a key that is not pause, space or exit was pressed in
\* FREE_ROTATE and the loop is still there.
C5_Witness ==
    /\ pc = "rotate" /\ key \in OtherKeys /\ rotate3d /\ delay = 0

\* C6: a step taken in FREE_ROTATE changes none of the 3D poses, the edge
\* list, the frame-time estimate, the configured width and the number of
\* frames fetched, runs neither the engine nor the decoder, and leaves on
\* the canvas the plot of those same poses and edges.
C6_RotateKeepsScene ==
    [][ pc = "rotate" =>
          /\ UNCHANGED <<poses_3d, edges, mean_time, IMAGE_WIDTH, net_shape,
                         frame_id, net_runs, n_decoded>>
          /\ canvas_3d' = Plot(poses_3d', edges') ]_vars

\* C6 witness: a poll of FREE_ROTATE timed out with a scene of two people on
\* the canvas.
C6_Witness ==
    /\ pc = "rotate" /\ key = NoKey
    /\ Len(poses_3d) = 2 /\ Len(edges) = 2 * Len(SKELETON_EDGES)
    /\ canvas_3d = Plot(poses_3d, edges)

\* C7 as claimed: a key that is none of escape, 'p' and space leaves the
\* playback state as it was, and the step it causes is one a timeout of
\* the same poll causes too (the key variable aside).
C7_UnknownKeyLikeTimeout ==
    [][ \A k \in OtherKeys :
          /\ MainPoll(k) =>
                /\ PlaybackState' = PlaybackState
                /\ NoKey \in WaitKey(delay) /\ MainPollEffect(NoKey)
          /\ RotatePoll(k) =>
                /\ PlaybackState' = PlaybackState
                /\ NoKey \in WaitKey(33) /\ RotatePollEffect(NoKey) ]_vars

\* C7 amended: such a key leaves the playback state as it was and is
\* handled as a poll that returned no key is handled; in RUNNING and in
\* FREE_ROTATE that is what a timeout of the poll does, while the poll of
\* FROZEN has no timeout and the key lets the loop go on to the next frame.
C7_UnknownKeyIgnored ==
    [][ \A k \in OtherKeys :
          /\ MainPoll(k) =>
                /\ PlaybackState' = PlaybackState
                /\ MainPollEffect(NoKey)
                /\ PlaybackState = "RUNNING" => NoKey \in WaitKey(delay)
                /\ PlaybackState = "FROZEN" =>
                      (NoKey \notin WaitKey(delay) /\ pc' = "check")
          /\ RotatePoll(k) =>
                /\ PlaybackState' = PlaybackState
                /\ NoKey \in WaitKey(33) /\ RotatePollEffect(NoKey) ]_vars

\* C7 witness: such a key was pressed at the blocking poll of FROZEN and
\* the loop, still FROZEN, has fetched the next frame.
C7_Witness ==
    /\ ~rotate3d /\ delay = 0 /\ key \in OtherKeys
    /\ pc = "preprocess" /\ frame_id >= 1

\* C8: the step that fetches None ends the loop there and then: nothing is
\* preprocessed, run, decoded, rendered or polled for that item, whatever
\* the playback state.
C8_NoneEndsLoop ==
    [][ (Fetch /\ frame_id' # frame_id /\ IsNone(frame')) =>
          /\ pc' = "done"
          /\ UNCHANGED <<n_preprocessed, net_runs, n_decoded, canvas_3d,
                         overlay, shown, written, key, delay>> ]_vars

\* C8 witness: the source yielded None while the loop was FROZEN, after a
\* frame had been processed, and the loop has ended.
C8_Witness ==
    /\ pc = "done" /\ frame_id >= 1 /\ IsNone(frame)
    /\ delay = 0 /\ key # esc_code /\ n_preprocessed = frame_id

\* C9: the engine's input shape is set at most once; it has been set once
\* as soon as a frame has been preprocessed, hence before any inference
\* run; the width set is the one derived from the first frame, and it stays
\* so whatever the shape of the later frames.
C9_ConfiguredOnce ==
    /\ n_set_shape <= 1
    /\ n_set_shape = 0 => (net_shape = <<>> /\ net_runs = 0 /\ n_preprocessed = 0)
    /\ n_preprocessed >= 1 => n_set_shape = 1
    /\ net_runs >= 1 => n_set_shape = 1
    /\ n_set_shape = 1 =>
          /\ net_shape = <<1, 3, IMAGE_HEIGHT, BaseWidth(first_frame)>>
          /\ IMAGE_WIDTH = BaseWidth(first_frame)

\* C9 witness: a later frame whose own width would be another one has been
\* preprocessed and run, and the engine was configured once.
C9_Witness ==
    /\ n_preprocessed >= 2 /\ net_runs >= 2 /\ n_set_shape = 1
    /\ ~IsNone(frame) /\ BaseWidth(frame) # BaseWidth(first_frame)

\* C10 as claimed: in single-image mode the loop never waits in the
\* FREE_ROTATE loop or at a blocking poll, and when it has ended the one
\* image was processed once and both files were written.
C10_ImageModeNotInteractive ==
    ~is_video =>
        /\ pc # "rotate"
        /\ pc = "poll" => delay = 1
        /\ pc = "done" =>
              /\ n_preprocessed = 1 /\ n_decoded = 1
              /\ written = {CanvasFile(0), SaveFile}


\* The positions of the loop body between the head of the frame loop and the
\* main poll.
BodyPcs == {"fetch", "preprocess", "infer", "decode", "render", "poll"}

\* C11 as claimed: the main poll and the FREE_ROTATE poll can both return
\* without a key, so no poll waits for the keyboard without limit.
C11_EveryWaitBounded ==
    /\ pc = "poll" => NoKey \in WaitKey(delay)
    /\ pc = "rotate" => NoKey \in WaitKey(33)

\* C11 amended: the FREE_ROTATE poll and the main poll of RUNNING return
\* after a finite timeout; the main poll of FROZEN, reached only with the
\* rotate option disabled, has delay 0 and waits until a key is pressed.
C11_WaitsBoundedButFrozen ==
    /\ pc = "rotate" => NoKey \in WaitKey(33)
    /\ pc = "poll" => delay \in {0, 1}
    /\ (pc = "poll" /\ delay = 1) => NoKey \in WaitKey(delay)
    /\ (pc = "poll" /\ delay = 0) => (~rotate3d /\ NoKey \notin WaitKey(delay))

\* C11 witness: the loop is at the main poll of FROZEN, which only a key
\* ends.
C11_Witness ==
    /\ pc = "poll" /\ delay = 0 /\ ~rotate3d
    /\ n_polls >= 1 /\ NoKey \notin WaitKey(delay)

\* C12: once the inference of a frame is over the engine has run 5 times
\* for each frame in single-image mode and once in video mode, and the
\* result handed to the decoder is that of the last run for its frame.
C12_RunsPerFrame ==
    LET runs == IF is_video THEN 1 ELSE 5
    IN  /\ pc # "infer" => net_runs = runs * n_preprocessed
        /\ pc = "infer" => (i < runs /\ net_runs = runs * (n_preprocessed - 1) + i)
        /\ pc = "decode" => results = <<frame_id, runs - 1>>
        /\ pc \in {"render", "poll", "check", "rotate"} =>
              inference_result = <<frame_id, runs - 1>>
        /\ n_decoded >= 1 => inference_result[2] = runs - 1

\* C12 witness: the image of single-image mode was decoded from the fifth
\* run.
C12_Witness ==
    /\ ~is_video /\ pc = "render"
    /\ net_runs = 5 /\ inference_result = <<0, 4>>

RatEq(a, b) == a[1] * b[2] = b[1] * a[2]

\* C14: the render step of the first frame leaves the estimate equal to
\* that frame's time, and the render step of every later frame leaves it at
\* 0.95 of the estimate before plus 0.05 of the frame's time, frame times of
\* 0 included.
C14_Ema ==
    [][ pc = "render" =>
          IF n_decoded = 1
            THEN RatEq(mean_time', <<current_time', 1>>)
            ELSE RatEq(mean_time', <<19 * mean_time[1] + current_time' * mean_time[2],
                                     20 * mean_time[2]>>) ]_vars

\* C14 witness: the second frame took 0 ticks and the estimate is 0.95 of
\* the first frame's time.
C14_Witness ==
    /\ pc = "poll" /\ n_decoded = 2 /\ current_time = 0
    /\ mean_time[1] > 0 /\ mean_time[2] = 20

\* C15: with N >= 1 poses the edge list has N times as many entries as the
\* template, the entry of person i and template edge (a, b) is
\* (a + 19 i, b + 19 i), and every index lies in 0 .. 19 N - 1.
C15_EdgeOffsets ==
    LET N == Len(poses_3d)
        K == Len(SKELETON_EDGES)
    IN  N >= 1 =>
          /\ Len(edges) = N * K
          /\ \A p \in 0..(N - 1) : \A m \in 1..K :
                edges[p * K + m] = <<SKELETON_EDGES[m][1] + 19 * p,
                                     SKELETON_EDGES[m][2] + 19 * p>>
          /\ \A e \in 1..Len(edges) : \A c \in 1..2 :
                edges[e][c] >= 0 /\ edges[e][c] < 19 * N

\* C15 witness: the edge list of two people.
C15_Witness ==
    /\ pc = "render" /\ Len(poses_3d) = 2
    /\ Len(edges) = 2 * Len(SKELETON_EDGES)
    /\ edges[Len(SKELETON_EDGES) + 1] = <<30, 29>>

\* C16: when the decoder returns no pose the poses are left as returned
\* and the edge list is empty, and the frame goes on to the render step,
\* which plots the empty scene, draws the overlay with the updated frame
\* time and leads to the main poll, as the render step of every frame does.
C16_EmptyPoses ==
    [][ /\ (pc = "decode" /\ Len(poses_2d') = 0) =>
              (poses_3d' = <<>> /\ edges' = <<>> /\ pc' = "render")
        /\ pc = "render" =>
              /\ pc' = "poll"
              /\ canvas_3d' = Plot(poses_3d, edges)
              /\ current_time' \in Samples
              /\ overlay' = [frame |-> frame_id, poses |-> poses_2d,
                             mean |-> mean_time']
        /\ (pc = "render" /\ Len(poses_3d) = 0) => canvas_3d' = Plot(<<>>, <<>>) ]_vars

\* C16 witness: a frame without poses was rendered and the loop is at the
\* main poll.
C16_Witness ==
    /\ pc = "poll" /\ n_decoded >= 2
    /\ Len(poses_3d) = 0 /\ edges = <<>>
    /\ canvas_3d = Plot(<<>>, <<>>)
    /\ overlay.frame = frame_id /\ overlay.poses = <<>>

\* C17: every keypoint of every pose held after the transform is
\* (-z, x, -y) of the rotated keypoint (x, y, z) of the decoder's pose, and
\* the remap leaves each confidence as it was.
C17_AxisRemap ==
    \A p \in 1..Len(poses_3d) :
        LET v == RotatePose(RawPose(inference_result[1], p - 1))
        IN  \A j \in 1..19 :
              /\ poses_3d[p][j] = <<0 - v[4 * (j - 1) + 3],
                                    v[4 * (j - 1) + 1],
                                    0 - v[4 * (j - 1) + 2]>>
              /\ AxisRemap(v)[4 * j] = v[4 * j]

\* C17 witness: two transformed poses are held.
C17_Witness ==
    /\ pc = "render" /\ Len(poses_3d) = 2 /\ frame_id >= 1

\* C18 as claimed: for the first frame the width of the tensor is the width
\* the engine was configured with.
C18_TensorWidthIsConfigured ==
    (n_preprocessed = 1 /\ pc \in {"infer", "decode"}) =>
        normalized_img[4] = net_shape[4]

\* C19: with the rotate option disabled the main poll of FROZEN returns only
\* on a key; the pause key then sets RUNNING and any other key but escape
\* leaves FROZEN, the loop goes back to the head of the frame loop, and
\* every main poll comes after exactly one more frame was fetched,
\* preprocessed, decoded and rendered.
C19_SingleStep ==
    [][ ~rotate3d =>
          /\ (pc = "poll" /\ delay = 0) =>
                /\ NoKey \notin WaitKey(delay)
                /\ MainPoll(p_code) => (delay' = 1 /\ pc' = "check")
                /\ \A k \in Keys \ {esc_code, p_code} :
                      MainPoll(k) => (delay' = 0 /\ pc' = "check")
          /\ pc = "check" => (pc' = "fetch" /\ UNCHANGED <<frame_id, delay>>)
          /\ pc' = "poll" =>
                /\ frame_id' = n_polls'
                /\ n_preprocessed' = n_polls' + 1
                /\ n_decoded' = n_polls' + 1
                /\ overlay'.frame = frame_id' ]_vars

\* C19 witness: a key other than pause and escape was pressed twice in
\* FROZEN and the loop is at the main poll again, FROZEN, two frames on.
C19_Witness ==
    /\ ~rotate3d /\ pc = "poll" /\ delay = 0
    /\ key \in OtherKeys /\ n_polls = 2 /\ frame_id = 2

\* C20: with the rotate option enabled delay is 1 from the head of the
\* frame loop to the main poll, so no frame is fetched and no main poll is
\* issued with delay 0.
C20_RotateNeverFrozenAtHead ==
    rotate3d => (pc \in BodyPcs => delay = 1)

\* C20 witness: the pause key ended FREE_ROTATE and the next frame has
\* reached the main poll with delay 1.
C20_Witness ==
    /\ rotate3d /\ pc = "poll" /\ delay = 1
    /\ key = p_code /\ n_polls >= 1

====
